---- MODULE Spec2Model ----
(***************************************************************************)
(* A model of the Jobindex scraper: the query-parameter rewrite            *)
(* (set_query_param), the fetcher (fetch), the normalizer (parse_jobs,     *)
(* JobPosting.from_api_payload) and the two pagination loops               *)
(* (scraper.main and generate_report.fetch_all_jobs).                      *)
(*                                                                         *)
(* Python values are tagged records: the tag t names the Python type and   *)
(* each type keeps its content in a field of its own name.                 *)
(***************************************************************************)
EXTENDS Integers, Sequences, FiniteSets, TLC

VARIABLES
    url, key, value, once, twice, upc,
    args, api,
    m_pc, m_total, m_page, m_jobs, m_reqs, m_exc, m_out, m_rc,
    r_pc, r_total, r_page, r_jobs, r_reqs, r_exc, r_ret

urlVars == <<url, key, value, once, twice, upc>>
envVars == <<args, api>>
mainVars == <<m_pc, m_total, m_page, m_jobs, m_reqs, m_exc, m_out, m_rc>>
repVars == <<r_pc, r_total, r_page, r_jobs, r_reqs, r_exc, r_ret>>
vars == <<urlVars, envVars, mainVars, repVars>>

(***************************************************************************)
(* Bounds.                                                                 *)
(***************************************************************************)
\* the largest total_pages an API answer declares
MaxPages == 3
\* the longest query string given to set_query_param
MaxQuery == 3

(***************************************************************************)
(* Python values.                                                          *)
(***************************************************************************)
None == [t |-> "none"]
PyStr(s) == [t |-> "str", s |-> s]
PyInt(n) == [t |-> "int", n |-> n]
\* a float, kept in tenths
PyFloat(tenths) == [t |-> "float", tenths |-> tenths]
\* a list, by its elements
PyList(elems) == [t |-> "list", elems |-> elems]
\* a mapping that holds at most the key "name"
PyDict(name) == [t |-> "dict", name |-> name]
\* a key that a mapping does not hold; dict.get turns it into None
Missing == [t |-> "missing"]

\* bool(v): None, "", 0, 0.0, [] and {} are falsy
Truthy(v) ==
    CASE v.t = "none" -> FALSE
      [] v.t = "missing" -> FALSE
      [] v.t = "str" -> v.s # ""
      [] v.t = "int" -> v.n # 0
      [] v.t = "float" -> v.tenths # 0
      [] v.t = "list" -> v.elems # <<>>
      [] v.t = "dict" -> v.name.t # "missing"
      [] OTHER -> TRUE

\* mapping.get(k): the value, or None when the key is absent
Get(v) == IF v.t = "missing" THEN None ELSE v

\* a or b
Or(a, b) == IF Truthy(a) THEN a ELSE b

\* an exception leaving a function
Raise(kind, msg, from) == [res |-> "raise", kind |-> kind, msg |-> msg, from |-> from]
Return(val) == [res |-> "return", val |-> val]

(***************************************************************************)
(* URLs and query strings.  A URL string is kept by its parts: pre is the  *)
(* text before the "?", query the text between "?" and "#" as the list of  *)
(* its "k=v" pieces (k and v in their percent-encoded form, v = "" for     *)
(* "k="), and frag tells what follows: "none" (no "#"), "empty" (a bare    *)
(* "#") or the fragment text.                                              *)
(***************************************************************************)
Url(pre, query, frag) == [pre |-> pre, query |-> query, frag |-> frag]
Pair(k, v) == [k |-> k, v |-> v]

\* urllib.parse.unquote_plus on the texts the model uses: "+" and "%20" are a
\* space, "%2C" a comma, everything else stands for itself
Unquote(s) ==
    CASE s = "x+y" -> "x y"
      [] s = "x%20y" -> "x y"
      [] s = "Skovvej+67%2C+9510+Arden" -> "Skovvej 67, 9510 Arden"
      [] OTHER -> s

\* urllib.parse.quote_plus on the texts the model uses: a space becomes "+",
\* a comma "%2C", letters, digits, "." and "_" stand for themselves
Quote(s) ==
    CASE s = "x y" -> "x+y"
      [] s = "Skovvej 67, 9510 Arden" -> "Skovvej+67%2C+9510+Arden"
      [] OTHER -> s

\* urlparse(url): (the parts before the query, query, fragment); a bare "#"
\* and no "#" both give the fragment ""
urlparse(u) ==
    [pre |-> u.pre, query |-> u.query,
     fragment |-> IF u.frag \in {"none", "empty"} THEN "" ELSE u.frag]

\* urlunparse(parts): the fragment "" writes no "#"
urlunparse(pre, query, fragment) ==
    Url(pre, query, IF fragment = "" THEN "none" ELSE fragment)

\* a Python dict of lists, in insertion order: a sequence of [k, vs]
DictHas(d, k) == \E i \in DOMAIN d : d[i].k = k

\* d[k].append(v), the key created at the end when new
DictAppend(d, k, v) ==
    IF DictHas(d, k)
    THEN [i \in DOMAIN d |->
            IF d[i].k = k THEN [k |-> k, vs |-> Append(d[i].vs, v)] ELSE d[i]]
    ELSE Append(d, [k |-> k, vs |-> <<v>>])

\* d[k] = vs: an existing key keeps its place, a new one goes last
DictSet(d, k, vs) ==
    IF DictHas(d, k)
    THEN [i \in DOMAIN d |-> IF d[i].k = k THEN [k |-> k, vs |-> vs] ELSE d[i]]
    ELSE Append(d, [k |-> k, vs |-> vs])

\* parse_qs(query) with its defaults (keep_blank_values=False): a piece whose
\* value is blank is skipped, the others are decoded and grouped by key
RECURSIVE ParseQsInto(_, _)
ParseQsInto(pairs, d) ==
    IF pairs = <<>> THEN d
    ELSE LET p == Head(pairs)
         IN ParseQsInto(Tail(pairs),
                        IF p.v = "" THEN d
                        ELSE DictAppend(d, Unquote(p.k), Unquote(p.v)))

parse_qs(query) == ParseQsInto(query, <<>>)

\* the pieces "k=v" of one key, every value of its list in order
RECURSIVE EncodeValues(_, _)
EncodeValues(k, vs) ==
    IF vs = <<>> THEN <<>>
    ELSE <<Pair(Quote(k), Quote(Head(vs)))>> \o EncodeValues(k, Tail(vs))

\* urlencode(d, doseq=True)
RECURSIVE urlencode(_)
urlencode(d) ==
    IF d = <<>> THEN <<>>
    ELSE EncodeValues(Head(d).k, Head(d).vs) \o urlencode(Tail(d))

\* set_query_param adding the value to those the key has, instead of replacing them
set_query_param_Adds(u, k, v) ==
    LET parsed == urlparse(u)
        q == DictAppend(parse_qs(parsed.query), k, v)
        new_query == urlencode(q)
    IN urlunparse(parsed.pre, new_query, parsed.fragment)

set_query_param(u, k, v) ==
    LET parsed == urlparse(u)
        q == DictSet(parse_qs(parsed.query), k, <<v>>)
        new_query == urlencode(q)
    IN urlunparse(parsed.pre, new_query, parsed.fragment)

DEFAULT_URL ==
    Url("https://www.jobindex.dk/api/jobsearch/v3/",
        << Pair("address", "Skovvej+67%2C+9510+Arden"),
           Pair("jobage", "1"),
           Pair("latitude", "56.776759306331"),
           Pair("longitude", "9.859810066344"),
           Pair("radius", "40"),
           Pair("sort", "score"),
           Pair("page", "1"),
           Pair("include_html", "1"),
           Pair("include_skyscraper", "1") >>,
        "none")

(***************************************************************************)
(* The normalizer.  A raw job record is a mapping with the keys the code   *)
(* reads; a key the mapping does not hold has the value Missing.           *)
(***************************************************************************)
RawJob(headline, company, area, apply_deadline, apply_url, link, distance) ==
    [t |-> "job", headline |-> headline, company |-> company, area |-> area,
     apply_deadline |-> apply_deadline, apply_url |-> apply_url, url |-> link,
     distance |-> distance]

\* datetime.fromisoformat(text.replace("Z", "+00:00")) followed by
\* strftime("%Y-%m-%d %H:%M %Z").strip(), on the texts the model uses
IsoFormatted(text) ==
    CASE text = "2024-05-01T10:00:00Z" -> [ok |-> TRUE, s |-> "2024-05-01 10:00 UTC"]
      [] text = "2024-05-01" -> [ok |-> TRUE, s |-> "2024-05-01 00:00"]
      [] OTHER -> [ok |-> FALSE]

_format_deadline(deadline) ==
    IF ~Truthy(deadline) THEN Return(None)
    ELSE IF deadline.t # "str"
    THEN Raise("AttributeError", "object has no attribute 'replace'", "parse_jobs")
    ELSE LET dt == IsoFormatted(deadline.s)
         IN IF dt.ok THEN Return(PyStr(dt.s)) ELSE Return(deadline)

\* float(text.strip().lower().replace(" km", "")) on the texts the model uses,
\* in tenths
FloatOfCleaned(text) ==
    CASE text = "12.3 km" -> [ok |-> TRUE, tenths |-> 123]
      [] text = " 5 KM" -> [ok |-> TRUE, tenths |-> 50]
      [] text = "7" -> [ok |-> TRUE, tenths |-> 70]
      [] OTHER -> [ok |-> FALSE]

_parse_distance(distance) ==
    IF distance.t = "none" \/ (distance.t = "str" /\ distance.s = "") THEN None
    ELSE IF distance.t = "int" THEN PyFloat(10 * distance.n)
    ELSE IF distance.t = "float" THEN distance
    ELSE IF distance.t = "str"
    THEN LET f == FloatOfCleaned(distance.s)
         IN IF f.ok THEN PyFloat(f.tenths) ELSE None
    ELSE None

JobPosting(headline, company, area, apply_deadline, apply_url, distance_km) ==
    [headline |-> headline, company |-> company, area |-> area,
     apply_deadline |-> apply_deadline, apply_url |-> apply_url,
     distance_km |-> distance_km]

\* JobPosting.from_api_payload: payload.get on something that is no mapping,
\* company.get on a truthy value that is no mapping, and deadline.replace on a
\* truthy value that is no text, raise AttributeError
from_api_payload(payload) ==
    IF payload.t # "job"
    THEN Raise("AttributeError", "object has no attribute 'get'", "parse_jobs")
    ELSE LET company == Or(Get(payload.company), PyDict(Missing))
             distance == _parse_distance(Get(payload.distance))
             deadline == _format_deadline(Get(payload.apply_deadline))
         IN IF company.t # "dict"
            THEN Raise("AttributeError", "object has no attribute 'get'", "parse_jobs")
            ELSE IF deadline.res = "raise" THEN deadline
            ELSE Return(JobPosting(
                     Or(Get(payload.headline), PyStr("(no title)")),
                     Get(company.name),
                     Get(payload.area),
                     deadline.val,
                     Or(Get(payload.apply_url), Get(payload.url)),
                     distance))

\* [from_api_payload(job) for job in results]: the first record that raises
\* ends the comprehension
RECURSIVE FromEach(_, _)
FromEach(results, acc) ==
    IF results = <<>> THEN Return(acc)
    ELSE LET job == from_api_payload(Head(results))
         IN IF job.res = "raise" THEN job
            ELSE FromEach(Tail(results), Append(acc, job.val))

\* a page response: the mapping fetch returns
Payload(total_pages, results) ==
    [t |-> "payload", total_pages |-> total_pages, results |-> results]

\* parse_jobs: results = payload.get("results") or []; a truthy value that is
\* no list is iterated as it is: a number is not iterable (TypeError), a text
\* or a mapping yields texts, which have no get (AttributeError)
parse_jobs(payload) ==
    LET results == Or(Get(payload.results), PyList(<<>>))
    IN CASE results.t = "list" -> FromEach(results.elems, <<>>)
         [] results.t \in {"int", "float"} ->
                Raise("TypeError", "object is not iterable", "parse_jobs")
         [] OTHER ->
                Raise("AttributeError", "object has no attribute 'get'", "parse_jobs")

\* int(text) for the decimal texts of small integers, ValueError otherwise
IntOfText(text) ==
    IF \E n \in -9..9 : ToString(n) = text
    THEN Return(CHOOSE n \in -9..9 : ToString(n) = text)
    ELSE Raise("ValueError", "invalid literal for int()", "int")

\* int(v)
IntOf(v) ==
    CASE v.t = "int" -> Return(v.n)
      [] v.t = "float" ->
             Return(IF v.tenths >= 0 THEN v.tenths \div 10 ELSE -((-v.tenths) \div 10))
      [] v.t = "str" -> IntOfText(v.s)
      [] OTHER -> Raise("TypeError", "int() argument must be a string or a number", "int")

\* total_pages read without its default: int(first_payload.get("total_pages"))
TotalPages_NoDefault(payload) == IntOf(Get(payload.total_pages))

\* int(first_payload.get("total_pages") or 1)
TotalPages(payload) == IntOf(Or(Get(payload.total_pages), PyInt(1)))

(***************************************************************************)
(* The fetcher.  What the network does with one request: "ok" answers with *)
(* a body that is valid JSON (a mapping); "urlerror" is a failure urlopen  *)
(* reports as URLError (DNS, connection refused, timeout while connecting, *)
(* an HTTP error status); "read_timeout" is a timeout while the response   *)
(* is read, which is a TimeoutError and no URLError; "bad_json" answers    *)
(* with a body that is not JSON.                                           *)
(***************************************************************************)
NetOk(payload) == [kind |-> "ok", payload |-> payload]
NetFail(kind) == [kind |-> kind]
NetFailures == {NetFail("urlerror"), NetFail("read_timeout"), NetFail("bad_json")}

\* fetch answering a failure with an empty page instead of raising
fetch_SwallowsFailure(net) ==
    IF net \in NetFailures THEN Return(Payload(Missing, Missing))
    ELSE Return(net.payload)

\* fetch: only URLError and JSONDecodeError are translated to RuntimeError
fetch(net) ==
    CASE net.kind = "urlerror" ->
             Raise("RuntimeError", "Failed to fetch data", "fetch")
      [] net.kind = "read_timeout" ->
             Raise("TimeoutError", "timed out", "fetch")
      [] net.kind = "bad_json" ->
             Raise("RuntimeError", "Received invalid JSON from Jobindex", "fetch")
      [] OTHER -> Return(net.payload)

(***************************************************************************)
(* The environment of a run: the command line and the API.                 *)
(***************************************************************************)
\* job records as the API may send them
GoodJob ==
    RawJob(PyStr("Developer"), PyDict(PyStr("Acme")), PyStr("Aarhus"),
           PyStr("2024-05-01T10:00:00Z"), PyStr("https://apply/1"), Missing,
           PyStr("12.3 km"))
SparseJob ==
    RawJob(Missing, None, Missing, PyStr("soon"), Missing, PyStr("https://job/2"),
           PyList(<<PyInt(1)>>))
CompanyAsText ==
    RawJob(PyStr("Operator"), PyStr("Acme"), Missing, Missing, Missing, Missing,
           PyInt(7))
DeadlineAsNumber ==
    RawJob(PyStr("Clerk"), PyDict(Missing), Missing, PyInt(5), Missing, Missing,
           Missing)

\* values of the results field
ResultsSamples ==
    { Missing, PyList(<<>>), PyList(<<GoodJob>>), PyList(<<SparseJob, GoodJob>>),
      PyInt(5), PyStr("ab"), PyList(<<GoodJob, CompanyAsText>>),
      PyList(<<DeadlineAsNumber>>) }

\* values of the total_pages field
TotalPagesSamples ==
    { Missing, None, PyStr("abc"), PyStr("2"), PyList(<<>>) }
        \cup { PyInt(n) : n \in -1..MaxPages }

\* the page numbers the API knows, as they appear in a query string
PageTexts == { ToString(n) : n \in 1..MaxPages }
PageKeys == PageTexts \cup {"other"}

\* the text of the first page parameter of a URL, "" when it has none
RECURSIVE FirstValue(_, _)
FirstValue(query, k) ==
    IF query = <<>> THEN ""
    ELSE IF Head(query).k = k THEN Head(query).v
    ELSE FirstValue(Tail(query), k)

RequestedPage(u) == FirstValue(u.query, "page")

ApiKey(u) == IF RequestedPage(u) \in PageTexts THEN RequestedPage(u) ELSE "other"

\* what the network may do with a request for a page
NetOutcomes(k) ==
    NetFailures \cup
    IF k = "1"
    THEN { NetOk(Payload(tp, rs)) : tp \in TotalPagesSamples, rs \in ResultsSamples }
    ELSE { NetOk(Payload(tp, rs)) : tp \in {Missing, PyInt(MaxPages)},
                                    rs \in ResultsSamples }

Unset == [kind |-> "unset"]

\* the API answers a page the same way every time it is asked
Answers(u) == IF api[ApiKey(u)] = Unset THEN NetOutcomes(ApiKey(u)) ELSE {api[ApiKey(u)]}

\* the URLs a user may give on the command line
ArgUrls ==
    { Url("https://host/api", <<Pair("page", "7"), Pair("radius", "40")>>, "none"),
      Url("https://host/api", <<Pair("radius", "40")>>, "none") }

(***************************************************************************)
(* scraper.main.                                                           *)
(***************************************************************************)
\* the loop of main guarded by total_pages > 2
MainLoopPages_GuardTwo(total) == IF total > 2 THEN 2..total ELSE {}

\* the pages of the loop of main: if total_pages > 1, range(2, total_pages + 1)
MainLoopPages(total) == IF total > 1 THEN 2..total ELSE {}

\* an uncaught exception ends the process with status 1
MainRaise(exc) ==
    /\ m_pc' = "raised"
    /\ m_exc' = exc
    /\ m_rc' = 1
    /\ UNCHANGED <<m_total, m_page, m_jobs, m_out>>

\* lines 118-126: the first page
MainFirstPage ==
    /\ m_pc = "start"
    /\ LET base_url == IF args # <<>> THEN args[1] ELSE DEFAULT_URL
           page1_url == set_query_param(base_url, "page", "1")
       IN \E net \in Answers(page1_url) :
            /\ api' = [api EXCEPT ![ApiKey(page1_url)] = net]
            /\ m_reqs' = Append(m_reqs, page1_url)
            /\ LET first_payload == fetch(net)
                   total_pages == TotalPages(first_payload.val)
                   jobs == parse_jobs(first_payload.val)
               IN IF first_payload.res = "raise" THEN MainRaise(first_payload)
                  ELSE IF total_pages.res = "raise" THEN MainRaise(total_pages)
                  ELSE IF jobs.res = "raise" THEN MainRaise(jobs)
                  ELSE /\ m_pc' = "loop"
                       /\ m_total' = total_pages.val
                       /\ m_jobs' = jobs.val
                       /\ m_page' = 2
                       /\ UNCHANGED <<m_exc, m_out, m_rc>>
    /\ UNCHANGED <<urlVars, args, repVars>>

\* lines 128-132: one turn of the loop
MainNextPage ==
    /\ m_pc = "loop"
    /\ m_page \in MainLoopPages(m_total)
    /\ LET base_url == IF args # <<>> THEN args[1] ELSE DEFAULT_URL
           page_url == set_query_param(base_url, "page", ToString(m_page))
       IN \E net \in Answers(page_url) :
            /\ api' = [api EXCEPT ![ApiKey(page_url)] = net]
            /\ m_reqs' = Append(m_reqs, page_url)
            /\ LET payload == fetch(net)
                   jobs == parse_jobs(payload.val)
               IN IF payload.res = "raise" THEN MainRaise(payload)
                  ELSE IF jobs.res = "raise" THEN MainRaise(jobs)
                  ELSE /\ m_jobs' = m_jobs \o jobs.val
                       /\ m_page' = m_page + 1
                       /\ UNCHANGED <<m_pc, m_total, m_exc, m_out, m_rc>>
    /\ UNCHANGED <<urlVars, args, repVars>>

\* lines 134-140: the loop is over; print and return 0
MainReport ==
    /\ m_pc = "loop"
    /\ m_page \notin MainLoopPages(m_total)
    /\ m_pc' = "done"
    /\ m_out' = IF m_jobs = <<>>
                THEN [printed |-> "No job postings found.", jobs |-> <<>>]
                ELSE [printed |-> "Total jobs", total |-> Len(m_jobs), jobs |-> m_jobs]
    /\ m_rc' = 0
    /\ UNCHANGED <<m_total, m_page, m_jobs, m_reqs, m_exc>>
    /\ UNCHANGED <<urlVars, envVars, repVars>>

(***************************************************************************)
(* generate_report.fetch_all_jobs.                                         *)
(***************************************************************************)
\* the pages of the loop of fetch_all_jobs: range(2, total_pages + 1)
ReportLoopPages(total) == 2..total

\* the exception leaves fetch_all_jobs: nothing is returned to generate_html
ReportRaise(exc) ==
    /\ r_pc' = "raised"
    /\ r_exc' = exc
    /\ UNCHANGED <<r_total, r_page, r_jobs, r_ret>>

\* lines 5-8: the first page
ReportFirstPage ==
    /\ r_pc = "start"
    /\ LET page1_url == set_query_param(DEFAULT_URL, "page", "1")
       IN \E net \in Answers(page1_url) :
            /\ api' = [api EXCEPT ![ApiKey(page1_url)] = net]
            /\ r_reqs' = Append(r_reqs, page1_url)
            /\ LET first_payload == fetch(net)
                   total_pages == TotalPages(first_payload.val)
                   jobs == parse_jobs(first_payload.val)
               IN IF first_payload.res = "raise" THEN ReportRaise(first_payload)
                  ELSE IF total_pages.res = "raise" THEN ReportRaise(total_pages)
                  ELSE IF jobs.res = "raise" THEN ReportRaise(jobs)
                  ELSE /\ r_pc' = "loop"
                       /\ r_total' = total_pages.val
                       /\ r_jobs' = jobs.val
                       /\ r_page' = 2
                       /\ UNCHANGED <<r_exc, r_ret>>
    /\ UNCHANGED <<urlVars, args, mainVars>>

\* lines 10-12: one turn of the loop
ReportNextPage ==
    /\ r_pc = "loop"
    /\ r_page \in ReportLoopPages(r_total)
    /\ LET page_url == set_query_param(DEFAULT_URL, "page", ToString(r_page))
       IN \E net \in Answers(page_url) :
            /\ api' = [api EXCEPT ![ApiKey(page_url)] = net]
            /\ r_reqs' = Append(r_reqs, page_url)
            /\ LET payload == fetch(net)
                   jobs == parse_jobs(payload.val)
               IN IF payload.res = "raise" THEN ReportRaise(payload)
                  ELSE IF jobs.res = "raise" THEN ReportRaise(jobs)
                  ELSE /\ r_jobs' = r_jobs \o jobs.val
                       /\ r_page' = r_page + 1
                       /\ UNCHANGED <<r_pc, r_total, r_exc, r_ret>>
    /\ UNCHANGED <<urlVars, args, mainVars>>

\* line 14: return jobs
ReportReturn ==
    /\ r_pc = "loop"
    /\ r_page \notin ReportLoopPages(r_total)
    /\ r_pc' = "done"
    /\ r_ret' = [jobs |-> r_jobs]
    /\ UNCHANGED <<r_total, r_page, r_jobs, r_reqs, r_exc>>
    /\ UNCHANGED <<urlVars, envVars, mainVars>>

(***************************************************************************)
(* set_query_param called once, and again on its own result.               *)
(***************************************************************************)
QueryPairs == { Pair(k, v) : k \in {"page", "a"}, v \in {"1", "", "x%20y"} }

RECURSIVE SeqsUpTo(_, _)
SeqsUpTo(S, n) ==
    IF n = 0 THEN {<<>>}
    ELSE LET shorter == SeqsUpTo(S, n - 1)
         IN shorter \cup { Append(q, x) : q \in shorter, x \in S }

UrlInputs ==
    { Url("https://host/api", q, f) :
        q \in SeqsUpTo(QueryPairs, MaxQuery), f \in {"none", "empty", "top"} }

UrlOnce ==
    /\ upc = "call"
    /\ once' = set_query_param(url, key, value)
    /\ upc' = "again"
    /\ UNCHANGED <<url, key, value, twice, envVars, mainVars, repVars>>

UrlTwice ==
    /\ upc = "again"
    /\ twice' = set_query_param(once, key, value)
    /\ upc' = "done"
    /\ UNCHANGED <<url, key, value, once, envVars, mainVars, repVars>>

(***************************************************************************)
(* Specifications.                                                         *)
(***************************************************************************)
RunInit ==
    /\ api = [k \in PageKeys |-> Unset]
    /\ m_pc = "start" /\ m_total = 0 /\ m_page = 0 /\ m_jobs = <<>>
    /\ m_reqs = <<>> /\ m_exc = None /\ m_out = None /\ m_rc = -1
    /\ r_pc = "start" /\ r_total = 0 /\ r_page = 0 /\ r_jobs = <<>>
    /\ r_reqs = <<>> /\ r_exc = None /\ r_ret = None

\* the two pagination front ends, run against the same API
Init ==
    /\ args \in {<<>>} \cup { <<u>> : u \in ArgUrls }
    /\ RunInit
    /\ url = DEFAULT_URL /\ key = "page" /\ value = "1"
    /\ once = DEFAULT_URL /\ twice = DEFAULT_URL /\ upc = "idle"

Next ==
    \/ MainFirstPage
    \/ MainNextPage
    \/ MainReport
    \/ ReportFirstPage
    \/ ReportNextPage
    \/ ReportReturn

Spec == Init /\ [][Next]_vars

\* set_query_param on every small URL, key and value
UrlInit ==
    /\ url \in UrlInputs
    /\ key \in {"page", "a"}
    /\ value \in {"3", "", "x y"}
    /\ once = url /\ twice = url /\ upc = "call"
    /\ args = <<>>
    /\ RunInit

UrlNext == UrlOnce \/ UrlTwice

UrlSpec == UrlInit /\ [][UrlNext]_vars

(***************************************************************************)
(* Vocabulary of the properties.                                           *)
(***************************************************************************)
\* what the network did with the request for u (it has been issued)
Outcome(u) == api[ApiKey(u)]

\* the request failed: a transport failure or a body that is not JSON
Failed(u) == Outcome(u) \in NetFailures

\* page 1 answered and declares total_pages = n
Declares(n) ==
    /\ api["1"].kind = "ok"
    /\ api["1"].payload.total_pages = PyInt(n)

\* the normalized records of pages 1..n, page after page
RECURSIVE ConcatPages(_)
ConcatPages(n) ==
    IF n = 0 THEN <<>>
    ELSE ConcatPages(n - 1) \o parse_jobs(api[ToString(n)].payload).val

\* how many pieces of a query string carry the key k
RECURSIVE KeyCount(_, _)
KeyCount(query, k) ==
    IF query = <<>> THEN 0
    ELSE (IF Head(query).k = k THEN 1 ELSE 0) + KeyCount(Tail(query), k)

\* how many times the piece p occurs in a query string
RECURSIVE Occurrences(_, _)
Occurrences(query, p) ==
    IF query = <<>> THEN 0
    ELSE (IF Head(query) = p THEN 1 ELSE 0) + Occurrences(Tail(query), p)

\* the requests are page=1, page=2, ..., page=n, each URL with one page parameter
RequestsArePages(reqs, n) ==
    /\ Len(reqs) = n
    /\ \A i \in DOMAIN reqs :
        /\ RequestedPage(reqs[i]) = ToString(i)
        /\ KeyCount(reqs[i].query, "page") = 1

Finished(pc) == pc \in {"done", "raised"}

(***************************************************************************)
(* C1.  When every fetch of a run succeeds and page 1 declares             *)
(* total_pages = N >= 1, the pagination returns the normalized records of  *)
(* pages 1..N, concatenated in page order.                                 *)
(***************************************************************************)
C1_ReturnsAllPagesInOrder ==
    \A n \in 1..MaxPages :
        /\ ( /\ Finished(m_pc) /\ Declares(n)
             /\ \A i \in DOMAIN m_reqs : ~Failed(m_reqs[i]) )
           => (m_pc = "done" /\ m_out.jobs = ConcatPages(n))
        /\ ( /\ Finished(r_pc) /\ Declares(n)
             /\ \A i \in DOMAIN r_reqs : ~Failed(r_reqs[i]) )
           => (r_pc = "done" /\ r_ret.jobs = ConcatPages(n))

(***************************************************************************)
(* C2.  A failed fetch is the last request of the run, the run ends with   *)
(* the failure of that fetch, and nothing is printed or returned.          *)
(***************************************************************************)
C2_FailureAbortsPagination ==
    /\ \A i \in DOMAIN m_reqs :
          Failed(m_reqs[i]) =>
              /\ i = Len(m_reqs)
              /\ m_pc = "raised" /\ m_exc.res = "raise" /\ m_exc.from = "fetch"
              /\ m_out = None
    /\ \A i \in DOMAIN r_reqs :
          Failed(r_reqs[i]) =>
              /\ i = Len(r_reqs)
              /\ r_pc = "raised" /\ r_exc.res = "raise" /\ r_exc.from = "fetch"
              /\ r_ret = None

\* page 2 failed after page 1 gave records, in both front ends
C2_Witness ==
    /\ Len(m_reqs) = 2 /\ Failed(m_reqs[2]) /\ m_jobs # <<>> /\ m_pc = "raised"
    /\ Len(r_reqs) = 2 /\ Failed(r_reqs[2]) /\ r_jobs # <<>> /\ r_pc = "raised"

(***************************************************************************)
(* C3.  When page 1 has total_pages missing or not numeric (and records    *)
(* that normalize), the run completes with the single request page 1 and   *)
(* the records of page 1.                                                  *)
(***************************************************************************)
NotNumeric == {Missing, None, PyStr("abc"), PyList(<<>>)}

C3_TotalPagesDefaultsToOne ==
    ( /\ api["1"].kind = "ok"
      /\ api["1"].payload.total_pages \in NotNumeric
      /\ parse_jobs(api["1"].payload).res = "return" )
    => /\ Finished(m_pc) =>
            /\ m_pc = "done" /\ Len(m_reqs) = 1
            /\ m_out.jobs = ConcatPages(1)
       /\ Finished(r_pc) =>
            /\ r_pc = "done" /\ Len(r_reqs) = 1
            /\ r_ret.jobs = ConcatPages(1)

(***************************************************************************)
(* C4.  parse_jobs raises for no page response: every page the API has     *)
(* answered normalizes to a sequence of records.                           *)
(***************************************************************************)
C4_NormalizeNeverRaises ==
    \A k \in PageKeys :
        api[k].kind = "ok" => parse_jobs(api[k].payload).res = "return"

(***************************************************************************)
(* C5.  set_query_param(url, "page", v) has the parameter page once, with  *)
(* the value v, and every other piece of the input query as often as the   *)
(* input has it, blank values included.                                    *)
(***************************************************************************)
C5_PageOnceOthersKept ==
    (upc # "call" /\ key = "page") =>
        /\ KeyCount(once.query, "page") = 1
        /\ \A i \in DOMAIN once.query :
              once.query[i].k = "page" => Unquote(once.query[i].v) = value
        /\ \A p \in QueryPairs :
              p.k # "page" => Occurrences(once.query, p) = Occurrences(url.query, p)

(***************************************************************************)
(* C6.  set_query_param applied to its own result, with the same key and   *)
(* value, gives that result again.                                         *)
(***************************************************************************)
C6_Idempotent == upc = "done" => twice = once

(***************************************************************************)
(* C7.  Every failure of fetch is of the one kind RuntimeError.            *)
(***************************************************************************)
C7_SingleErrorKind ==
    /\ (m_pc = "raised" /\ m_exc.from = "fetch") => m_exc.kind = "RuntimeError"
    /\ (r_pc = "raised" /\ r_exc.from = "fetch") => r_exc.kind = "RuntimeError"

(***************************************************************************)
(* C8.  With page 1 answering results = [] and no total_pages, neither     *)
(* front end raises or asks for a second page; fetch_all_jobs returns the  *)
(* empty sequence, and main reports that no postings were found and        *)
(* returns 0.                                                              *)
(***************************************************************************)
EmptyAnswer == NetOk(Payload(Missing, PyList(<<>>)))

C8_EmptyRunSucceeds ==
    api["1"] = EmptyAnswer =>
        /\ m_pc # "raised" /\ Len(m_reqs) <= 1 /\ m_jobs = <<>>
        /\ m_pc = "loop" => m_page \notin MainLoopPages(m_total)
        /\ m_pc = "done" =>
              /\ m_rc = 0
              /\ m_out = [printed |-> "No job postings found.", jobs |-> <<>>]
        /\ r_pc # "raised" /\ Len(r_reqs) <= 1 /\ r_jobs = <<>>
        /\ r_pc = "loop" => r_page \notin ReportLoopPages(r_total)
        /\ r_pc = "done" => r_ret = [jobs |-> <<>>]

C8_Witness == api["1"] = EmptyAnswer /\ m_pc = "done" /\ r_pc = "done"

(***************************************************************************)
(* C9.  A run that succeeds with total_pages = N >= 1 declared has asked   *)
(* for page=1, ..., page=N, each once and in this order, whatever page the *)
(* base URL named, and holds the records of all N pages: an empty page     *)
(* does not end it and records that repeat are kept.                       *)
(***************************************************************************)
C9_EachPageOnceInOrder ==
    \A n \in 1..MaxPages :
        /\ (m_pc = "done" /\ Declares(n)) =>
              /\ RequestsArePages(m_reqs, n)
              /\ m_jobs = ConcatPages(n)
        /\ (r_pc = "done" /\ Declares(n)) =>
              /\ RequestsArePages(r_reqs, n)
              /\ r_jobs = ConcatPages(n)

\* three pages, the base URL naming page 7, page 2 empty, page 3 repeating page 1
C9_Witness ==
    /\ m_pc = "done" /\ r_pc = "done" /\ Declares(3)
    /\ args # <<>> /\ RequestedPage(args[1]) = "7"
    /\ api["2"].payload.results = PyList(<<>>)
    /\ api["3"].payload.results = api["1"].payload.results
    /\ Len(m_jobs) = 2

(***************************************************************************)
(* C10.  On the default URL and the same API, main and fetch_all_jobs end  *)
(* with the same requests and the same records or the same failure; with   *)
(* total_pages 1, 0 or negative both make the one request for page 1.      *)
(***************************************************************************)
C10_SamePagination ==
    (args = <<>> /\ Finished(m_pc) /\ Finished(r_pc)) =>
        /\ m_reqs = r_reqs
        /\ m_pc = r_pc
        /\ m_pc = "done" => (m_jobs = r_jobs /\ m_out.jobs = r_ret.jobs)
        /\ m_pc = "raised" => m_exc = r_exc
        /\ \A n \in -1..1 : Declares(n) => (Len(m_reqs) = 1 /\ Len(r_reqs) = 1)

\* a negative total_pages: both stop after page 1
C10_Witness ==
    /\ args = <<>> /\ m_pc = "done" /\ r_pc = "done"
    /\ Declares(-1) /\ Len(m_reqs) = 1 /\ m_jobs # <<>>

====
